---- MODULE Spec2Model ----
(***************************************************************************)
(* taskflow-backend: the authentication token lifecycle (register, login,  *)
(* refresh rotation, logout), the access guard and the owner-scoped task   *)
(* store, as implemented by the User/Task models, the auth middleware and  *)
(* the auth/task controllers.                                              *)
(*                                                                         *)
(* Time is the clock of jsonwebtoken, in whole seconds (iat and exp are    *)
(* Math.floor(Date.now() / 1000)); the two expiry periods are scaled to a  *)
(* few ticks.  A JWT is the record of what its string encodes: the secret  *)
(* it was signed with, the payload id, iat and exp.  HS256 is              *)
(* deterministic, so two tokens with the same secret, id and iat are the   *)
(* same string.                                                            *)
(***************************************************************************)
EXTENDS Integers, Sequences, FiniteSets, TLC

\* ------------------------------------------------------------------ bounds
MaxUsers == 2
MaxTime == 2
MaxTasks == 2
MaxInflight == 2

\* JWT_REFRESH_EXPIRE and JWT_ACCESS_EXPIRE, in ticks of the clock
RefreshExpire == 2
AccessExpire == 1

VARIABLES
    users,        \* the users collection: sequence of user documents, _id = index
    tasks,        \* the tasks collection: function from task _id to document
    nextTaskId,   \* the next fresh task _id
    now,          \* the clock, in seconds
    issued,       \* history: <<id, iat>> of every token pair handed to a client
    regPassword,  \* history: the plaintext given at each user's registration
    loggedOut,    \* history: per user, TRUE from a logout until the next login
    req,          \* the request handled last
    res,          \* the response to it
    inflight      \* interleaved refresh requests (SpecRefreshRace only)

vars == <<users, tasks, nextTaskId, now, issued, regPassword, loggedOut, req, res, inflight>>

\* ------------------------------------------------------------------ tokens
\* jwt.sign(payload, secret, { expiresIn }): iat is the current second
Sign(secret, id, t, ttl) == [kind |-> secret, id |-> id, iat |-> t, exp |-> t + ttl]

\* a cookie or header that is absent, and the null stored after logout
Null == [kind |-> "null", id |-> 0, iat |-> 0, exp |-> 0]
\* a string that is no JWT at all
Garbage == [kind |-> "malformed", id |-> 0, iat |-> 0, exp |-> 0]
\* a well-formed JWT for user id signed with a key that is not the server's
Forged(id) == [kind |-> "forged", id |-> id, iat |-> 0, exp |-> MaxTime + RefreshExpire + 1]

VerifySharedSecret(token, secret, t) ==
    IF token.kind \notin {"access", "refresh"} THEN "JsonWebTokenError"
    ELSE IF t >= token.exp THEN "TokenExpiredError"
    ELSE "ok"

\* jwt.verify(token, secret): malformed, then signature, then expiry
Verify(token, secret, t) ==
    IF token.kind \notin {"access", "refresh", "forged"} THEN "JsonWebTokenError"
    ELSE IF token.kind # secret THEN "JsonWebTokenError"
    ELSE IF t >= token.exp THEN "TokenExpiredError"
    ELSE "ok"

generateAccessToken(id, t) == Sign("access", id, t, AccessExpire)

signRefreshTokenAccessSecret(id, t) == Sign("access", id, t, RefreshExpire)

\* the jwt.sign of generateRefreshToken
signRefreshToken(id, t) == Sign("refresh", id, t, RefreshExpire)

\* ------------------------------------------------------------------ passwords
\* A password value is a plaintext wrapped in the salts of the bcrypt rounds
\* applied to it: no salts is the plaintext itself.
Plain(p) == [text |-> p, salts |-> <<>>]

\* bcrypt.hash(value, salt)
Hash(value, salt) == [text |-> value.text, salts |-> Append(value.salts, salt)]

\* bcrypt.compare(entered, stored): hash entered with stored's salt and compare
comparePassword(entered, stored) ==
    /\ Len(stored.salts) > 0
    /\ stored = Hash(Plain(entered), stored.salts[Len(stored.salts)])

isModifiedAlways(paths, path) == TRUE

\* doc.isModified(path)
isModified(paths, path) == path \in paths

\* bcrypt.genSalt(10): a salt that no hash stored in the collection carries
genSalt(us) == Len(us) + 1

\* userSchema.pre('save'): hash the password only when it is new or modified
preSave(doc, paths, salt) ==
    IF ~isModified(paths, "password") THEN doc
    ELSE [doc EXCEPT !.password = Hash(doc.password, salt)]

\* ------------------------------------------------------------------ inputs
\* "" stands for a field that is missing (undefined) or empty: both are falsy
Emails == {"jo@x.io", "JO@x.io", "al@x.io"}
Passwords == {"secret1", "secret2"}

Body(name, email, password) == [name |-> name, email |-> email, password |-> password]

\* bodies of POST /auth/register: complete ones, and one per missing field
RegisterBodies ==
    {Body("Jo", "jo@x.io", "secret1"), Body("Jo", "JO@x.io", "secret1"),
     Body("Al", "al@x.io", "secret2"), Body("Al", "al@x.io", "abc")}
    \cup {Body("", "jo@x.io", "secret1"), Body("Jo", "", "secret1"), Body("Jo", "jo@x.io", "")}

\* bodies of POST /auth/login
LoginBodies ==
    {Body("", e, p) : e \in Emails, p \in Passwords}
    \cup {Body("", "", "secret1"), Body("", "jo@x.io", "")}

\* the lowercase setter of userSchema.email, on the inputs above
LowerCase(e) == IF e = "JO@x.io" THEN "jo@x.io" ELSE e

\* the match pattern of userSchema.email, on the inputs above
MatchesEmailPattern(e) == e \in {"jo@x.io", "al@x.io"}

\* schema validation of a new user document
validateUser(doc) ==
    /\ Len(doc.name) >= 2 /\ Len(doc.name) <= 50
    /\ doc.email # "" /\ MatchesEmailPattern(doc.email)
    /\ Len(doc.password.text) >= 6

findByEmailExact(us, email) == {i \in DOMAIN us : us[i].email = email}

\* User.findOne({ email }): the query value goes through the schema's setters
findByEmail(us, email) == {i \in DOMAIN us : us[i].email = LowerCase(email)}

\* the unique index on email: an insert of a second document with the same
\* stored email fails with the duplicate key error E11000
duplicateKey(us, doc) == \E i \in DOMAIN us : us[i].email = doc.email

\* ------------------------------------------------------------------ responses
\* a response without a user object in its body
NoUser == [id |-> 0, name |-> "", email |-> ""]

\* cookie and refreshToken are the Set-Cookie header; message, accessToken and
\* user are the JSON body
Response(status, message, cookie, refreshToken, accessToken) ==
    [status |-> status, message |-> message, cookie |-> cookie,
     refreshToken |-> refreshToken, accessToken |-> accessToken, user |-> NoUser]

userJsonWhole(doc, id) ==
    [id |-> id, name |-> doc.name, email |-> doc.email,
     password |-> doc.password, refreshToken |-> doc.refreshToken]

\* the user object of a body: { id: user._id, name: user.name, email: user.email }
userJson(doc, id) == [id |-> id, name |-> doc.name, email |-> doc.email]

WithUser(r, user) == [r EXCEPT !.user = user]

Fail(status, message) == Response(status, message, "none", Null, Null)

NoRequest == [op |-> "none", name |-> "", email |-> "", password |-> "", cookie |-> Null]
AuthRequest(op, name, email, password, cookie) ==
    [op |-> op, name |-> name, email |-> email, password |-> password, cookie |-> cookie]

\* the result of a handler: its response and the collection it leaves
Result(r, us) == [res |-> r, users |-> us]

generateRefreshTokenUnsaved(us, id, t) == us

\* generateRefreshToken: sign, assign, save({ validateBeforeSave: false })
generateRefreshToken(us, id, t) ==
    [us EXCEPT ![id] = preSave([@ EXCEPT !.refreshToken = signRefreshToken(id, t)],
                               {"refreshToken"}, genSalt(us))]

\* ------------------------------------------------------------------ register
register(us, t, name, email, password) ==
    IF name = "" \/ email = "" \/ password = ""
    THEN Result(Fail(400, "Please provide name, email, and password"), us)
    ELSE IF findByEmail(us, email) # {}
    THEN Result(Fail(400, "User with this email already exists"), us)
    ELSE LET doc == [name |-> name, email |-> LowerCase(email),
                     password |-> Plain(password), refreshToken |-> Null]
             id == Len(us) + 1
         IN  IF ~validateUser(doc)
             THEN Result(Fail(500, "Server error during registration"), us)
             ELSE IF duplicateKey(us, doc)
             THEN Result(Fail(500, "Server error during registration"), us)
             ELSE LET created == Append(us, preSave(doc, {"name", "email", "password"}, genSalt(us)))
                      saved == generateRefreshToken(created, id, t)
                  IN  Result(WithUser(Response(201, "User registered successfully", "set",
                                               signRefreshToken(id, t),
                                               generateAccessToken(id, t)),
                                      userJson(saved[id], id)),
                             saved)

\* ------------------------------------------------------------------ login
unknownEmailResponseLeaky == Fail(404, "User not found")

\* the two rejections of login: no such email, and a hash that does not match
unknownEmailResponse == Fail(401, "Invalid credentials")
wrongPasswordResponse == Fail(401, "Invalid credentials")

login(us, t, email, password) ==
    IF email = "" \/ password = ""
    THEN Result(Fail(400, "Please provide email and password"), us)
    ELSE IF findByEmail(us, email) = {}
    THEN Result(unknownEmailResponse, us)
    ELSE LET id == CHOOSE i \in findByEmail(us, email) : TRUE
         IN  IF ~comparePassword(password, us[id].password)
             THEN Result(wrongPasswordResponse, us)
             ELSE Result(WithUser(Response(200, "Login successful", "set",
                                           signRefreshToken(id, t), generateAccessToken(id, t)),
                                  userJson(us[id], id)),
                         generateRefreshToken(us, id, t))

\* ------------------------------------------------------------------ refresh
tokenMatchesAlways(stored, presented) == TRUE

\* the revocation check: user.refreshToken !== refreshToken
tokenMatches(stored, presented) == stored = presented

refreshRevokingOnReuse(us, t, cookie) ==
    IF cookie = Null
    THEN Result(Fail(401, "No refresh token provided"), us)
    ELSE IF Verify(cookie, "refresh", t) # "ok"
    THEN Result(Fail(401, "Invalid or expired refresh token"), us)
    ELSE IF cookie.id \notin DOMAIN us
    THEN Result(Fail(401, "User not found"), us)
    ELSE IF ~tokenMatches(us[cookie.id].refreshToken, cookie)
    THEN Result(Fail(401, "Invalid refresh token"),
                [us EXCEPT ![cookie.id].refreshToken = Null])
    ELSE Result(Response(200, "Token refreshed successfully", "set",
                         signRefreshToken(cookie.id, t), generateAccessToken(cookie.id, t)),
                generateRefreshToken(us, cookie.id, t))

refresh(us, t, cookie) ==
    IF cookie = Null
    THEN Result(Fail(401, "No refresh token provided"), us)
    ELSE IF Verify(cookie, "refresh", t) # "ok"
    THEN Result(Fail(401, "Invalid or expired refresh token"), us)
    ELSE IF cookie.id \notin DOMAIN us
    THEN Result(Fail(401, "User not found"), us)
    ELSE IF ~tokenMatches(us[cookie.id].refreshToken, cookie)
    THEN Result(Fail(401, "Invalid refresh token"), us)
    ELSE Result(Response(200, "Token refreshed successfully", "set",
                         signRefreshToken(cookie.id, t), generateAccessToken(cookie.id, t)),
                generateRefreshToken(us, cookie.id, t))

\* ------------------------------------------------------------------ logout
findByIdAndUpdateKeep(us, id, token) == us

\* User.findByIdAndUpdate(id, { refreshToken: token }): no-op for an unknown id
findByIdAndUpdate(us, id, token) ==
    IF id \in DOMAIN us THEN [us EXCEPT ![id].refreshToken = token] ELSE us

logoutIfCurrent(us, t, cookie) ==
    IF cookie # Null /\ Verify(cookie, "refresh", t) # "ok"
    THEN Result(Fail(500, "Server error during logout"), us)
    ELSE Result(Response(200, "Logout successful", "cleared", Null, Null),
                IF cookie # Null /\ cookie.id \in DOMAIN us
                   /\ us[cookie.id].refreshToken = cookie
                THEN findByIdAndUpdate(us, cookie.id, Null) ELSE us)

logout(us, t, cookie) ==
    IF cookie # Null /\ Verify(cookie, "refresh", t) # "ok"
    THEN \* jwt.verify throws inside the handler's only try block
         Result(Fail(500, "Server error during logout"), us)
    ELSE Result(Response(200, "Logout successful", "cleared", Null, Null),
                IF cookie # Null THEN findByIdAndUpdate(us, cookie.id, Null) ELSE us)

\* ------------------------------------------------------------------ clients
UserIds == 1..MaxUsers

\* what a client can put in the refresh cookie: nothing, junk, a token signed
\* with a key of its own, or any token the server has handed out
Presentable ==
    {Null, Garbage, Forged(1)}
    \cup {Sign("refresh", i[1], i[2], RefreshExpire) : i \in issued}
    \cup {Sign("access", i[1], i[2], AccessExpire) : i \in {j \in issued : j[2] = now}}

NoInflight == <<>>

\* ------------------------------------------------------------------ actions
Init ==
    /\ users = <<>>
    /\ tasks = <<>>
    /\ nextTaskId = 1
    /\ now = 0
    /\ issued = {}
    /\ regPassword = <<>>
    /\ loggedOut = <<>>
    /\ req = NoRequest
    /\ res = Fail(0, "")
    /\ inflight = NoInflight

Tick ==
    /\ now < MaxTime
    /\ now' = now + 1
    /\ UNCHANGED <<users, tasks, nextTaskId, issued, regPassword, loggedOut, req, res, inflight>>

\* the token pair a response delivers goes into the history
Delivered(r) ==
    IF r.cookie = "set" THEN {<<r.refreshToken.id, r.refreshToken.iat>>} ELSE {}

Register ==
    \E body \in RegisterBodies :
        LET out == register(users, now, body.name, body.email, body.password) IN
        /\ Len(out.users) <= MaxUsers
        /\ users' = out.users
        /\ res' = out.res
        /\ req' = AuthRequest("register", body.name, body.email, body.password, Null)
        /\ issued' = issued \cup Delivered(out.res)
        /\ regPassword' = IF out.res.status = 201 THEN Append(regPassword, body.password)
                          ELSE regPassword
        /\ loggedOut' = IF out.res.status = 201 THEN Append(loggedOut, FALSE) ELSE loggedOut
        /\ UNCHANGED <<tasks, nextTaskId, now, inflight>>

Login ==
    \E body \in LoginBodies :
        LET out == login(users, now, body.email, body.password) IN
        /\ users' = out.users
        /\ res' = out.res
        /\ req' = AuthRequest("login", "", body.email, body.password, Null)
        /\ issued' = issued \cup Delivered(out.res)
        /\ loggedOut' = IF out.res.status = 200
                        THEN [loggedOut EXCEPT ![out.res.refreshToken.id] = FALSE]
                        ELSE loggedOut
        /\ UNCHANGED <<tasks, nextTaskId, now, regPassword, inflight>>

Refresh ==
    \E cookie \in Presentable :
        LET out == refresh(users, now, cookie) IN
        /\ users' = out.users
        /\ res' = out.res
        /\ req' = AuthRequest("refresh", "", "", "", cookie)
        /\ issued' = issued \cup Delivered(out.res)
        /\ UNCHANGED <<tasks, nextTaskId, now, regPassword, loggedOut, inflight>>

Logout ==
    \E cookie \in Presentable :
        LET out == logout(users, now, cookie) IN
        /\ users' = out.users
        /\ res' = out.res
        /\ req' = AuthRequest("logout", "", "", "", cookie)
        /\ loggedOut' = IF out.res.status = 200 /\ cookie # Null /\ cookie.id \in DOMAIN users
                        THEN [loggedOut EXCEPT ![cookie.id] = TRUE]
                        ELSE loggedOut
        /\ UNCHANGED <<tasks, nextTaskId, now, issued, regPassword, inflight>>

\* ------------------------------------------------------------------ access guard
NoHeader == [scheme |-> "none", token |-> Null]
Bearer(token) == [scheme |-> "Bearer", token |-> token]

Guard(status, message, user) == [status |-> status, message |-> message, user |-> user]

protectDecodeOnly(us, t, header) ==
    IF header.scheme # "Bearer" THEN Guard(401, "Access denied. No token provided.", 0)
    ELSE IF header.token.id \notin DOMAIN us
    THEN Guard(401, "User not found. Token is invalid.", 0)
    ELSE Guard(0, "", header.token.id)

protectOneMessage(us, t, header) ==
    IF header.scheme # "Bearer" THEN Guard(401, "Access denied. No token provided.", 0)
    ELSE IF Verify(header.token, "access", t) # "ok"
    THEN Guard(401, "Invalid token. Please login again.", 0)
    ELSE IF header.token.id \notin DOMAIN us
    THEN Guard(401, "User not found. Token is invalid.", 0)
    ELSE Guard(0, "", header.token.id)

protectNoLookup(us, t, header) ==
    IF header.scheme # "Bearer" THEN Guard(401, "Access denied. No token provided.", 0)
    ELSE IF Verify(header.token, "access", t) = "JsonWebTokenError"
    THEN Guard(401, "Invalid token. Please login again.", 0)
    ELSE IF Verify(header.token, "access", t) = "TokenExpiredError"
    THEN Guard(401, "Token expired. Please refresh your token or login again.", 0)
    ELSE Guard(0, "", header.token.id)

protectFirstUser(us, t, header) ==
    IF header.scheme # "Bearer" THEN Guard(401, "Access denied. No token provided.", 0)
    ELSE IF Verify(header.token, "access", t) = "JsonWebTokenError"
    THEN Guard(401, "Invalid token. Please login again.", 0)
    ELSE IF Verify(header.token, "access", t) = "TokenExpiredError"
    THEN Guard(401, "Token expired. Please refresh your token or login again.", 0)
    ELSE IF header.token.id \notin DOMAIN us
    THEN Guard(401, "User not found. Token is invalid.", 0)
    ELSE Guard(0, "", 1)

protectSessionBound(us, t, header) ==
    IF header.scheme # "Bearer" THEN Guard(401, "Access denied. No token provided.", 0)
    ELSE IF Verify(header.token, "access", t) = "JsonWebTokenError"
    THEN Guard(401, "Invalid token. Please login again.", 0)
    ELSE IF Verify(header.token, "access", t) = "TokenExpiredError"
    THEN Guard(401, "Token expired. Please refresh your token or login again.", 0)
    ELSE IF header.token.id \notin DOMAIN us
    THEN Guard(401, "User not found. Token is invalid.", 0)
    ELSE IF us[header.token.id].refreshToken = Null
    THEN Guard(401, "Invalid token. Please login again.", 0)
    ELSE Guard(0, "", header.token.id)

\* protect: the Authorization header, jwt.verify with the access secret, then
\* User.findById; status 0 stands for next() with req.user = user
protect(us, t, header) ==
    IF header.scheme # "Bearer"
    THEN Guard(401, "Access denied. No token provided.", 0)
    ELSE IF Verify(header.token, "access", t) = "JsonWebTokenError"
    THEN Guard(401, "Invalid token. Please login again.", 0)
    ELSE IF Verify(header.token, "access", t) = "TokenExpiredError"
    THEN Guard(401, "Token expired. Please refresh your token or login again.", 0)
    ELSE IF header.token.id \notin DOMAIN us
    THEN Guard(401, "User not found. Token is invalid.", 0)
    ELSE Guard(0, "", header.token.id)

guardedStoreRevoking(us, t, header) ==
    IF header.token.id \in DOMAIN us
    THEN [us EXCEPT ![header.token.id].refreshToken = Null] ELSE us

\* the users collection once protect has run: its only access to the store
\* is the read User.findById(decoded.id).select('-password -refreshToken')
guardedStore(us, t, header) == us

\* ------------------------------------------------------------------ task schema
\* a field the body does not carry
Undefined == "undefined"

\* the trim setter of taskSchema.title, on the titles of the bodies below
Trim(str) == IF str = " ab " THEN "ab" ELSE str

Fields(title, description, status, priority, dueDate) ==
    [title |-> title, description |-> description, status |-> status,
     priority |-> priority, dueDate |-> dueDate, createdBy |-> 0]

\* the same body with a createdBy field added by the client (0: no such field)
WithOwner(body, uid) == [body EXCEPT !.createdBy = uid]

newTaskNoDefaults(body, uid, seq) ==
    [title |-> Trim(body.title), description |-> Trim(body.description),
     status |-> body.status, priority |-> body.priority, dueDate |-> body.dueDate,
     createdBy |-> uid, createdAt |-> seq]

\* Task.create({ title, description, status, priority, dueDate, createdBy }):
\* the schema's setters and defaults applied to the new document
newTask(body, uid, seq) ==
    [title |-> Trim(body.title),
     description |-> Trim(body.description),
     status |-> IF body.status = Undefined THEN "todo" ELSE body.status,
     priority |-> IF body.priority = Undefined THEN "medium" ELSE body.priority,
     dueDate |-> body.dueDate,
     createdBy |-> uid,
     createdAt |-> seq]

validateNothing(doc) == TRUE

\* the schema's validators
validateTask(doc) ==
    /\ doc.title # Undefined /\ doc.title # ""
    /\ Len(doc.title) >= 3 /\ Len(doc.title) <= 100
    /\ doc.description = Undefined \/ Len(doc.description) <= 500
    /\ doc.status \in {"todo", "in-progress", "done"}
    /\ doc.priority \in {"low", "medium", "high"}
    /\ doc.createdBy # 0

\* ------------------------------------------------------------------ task controller
\* the :id parameter: a 24-digit hex string naming n, or a string that
\* mongoose cannot cast to an ObjectId
Id(n) == [hex |-> TRUE, n |-> n]
BadId == [hex |-> FALSE, n |-> 0]

TaskResponse(status, message, data) ==
    [status |-> status, message |-> message, data |-> data, count |-> Len(data)]

TaskRequest(op, header, id, body) == [op |-> op, header |-> header, id |-> id, body |-> body]

TaskResult(r, ts) == [res |-> r, tasks |-> ts]

ownedByAnyone(task, uid) == TRUE

\* the createdBy: req.user.id condition of every task query
ownedBy(task, uid) == task.createdBy = uid

\* Task.findOne({ _id: id, createdBy: req.user.id })
findOne(ts, id, uid) == {k \in DOMAIN ts : k = id.n /\ ownedBy(ts[k], uid)}

findByIdAndDelete(ts, id, uid) == {k \in DOMAIN ts : k = id.n}

\* the filter of Task.findOneAndDelete({ _id: id, createdBy: req.user.id })
findOneAndDelete(ts, id, uid) == findOne(ts, id, uid)

castErrorUnhandled(message) == TaskResponse(500, message, <<>>)

\* the catch branch for error.kind === 'ObjectId'
castErrorResponse(message) == TaskResponse(404, "Task not found", <<>>)

WithoutNothing(ts, k) == ts

\* the collection once document k is removed
Without(ts, k) == [j \in DOMAIN ts \ {k} |-> ts[j]]

createTask(ts, uid, body, seq) ==
    IF body.title = Undefined \/ body.title = ""
    THEN TaskResult(TaskResponse(400, "Please provide a task title", <<>>), ts)
    ELSE LET doc == newTask(body, uid, seq) IN
         IF ~validateTask(doc)
         THEN TaskResult(TaskResponse(500, "Server error while creating task", <<>>), ts)
         ELSE TaskResult(TaskResponse(201, "Task created successfully", <<doc>>),
                         ts @@ (seq :> doc))

RECURSIVE Oldest(_, _)
Oldest(ts, ids) ==
    IF ids = {} THEN <<>>
    ELSE LET k == CHOOSE x \in ids : \A y \in ids : ts[x].createdAt <= ts[y].createdAt
         IN  <<ts[k]>> \o Oldest(ts, ids \ {k})

\* find({ createdBy }).sort({ createdAt: -1 }): the documents of ids, newest first
RECURSIVE Newest(_, _)
Newest(ts, ids) ==
    IF ids = {} THEN <<>>
    ELSE LET k == CHOOSE x \in ids : \A y \in ids : ts[y].createdAt <= ts[x].createdAt
         IN  <<ts[k]>> \o Newest(ts, ids \ {k})

getTasks(ts, uid) ==
    TaskResult(TaskResponse(200, "", Newest(ts, {k \in DOMAIN ts : ownedBy(ts[k], uid)})), ts)

getTaskById(ts, uid, id) ==
    IF ~id.hex
    THEN TaskResult(castErrorResponse("Server error while fetching task"), ts)
    ELSE IF findOne(ts, id, uid) = {}
    THEN TaskResult(TaskResponse(404, "Task not found", <<>>), ts)
    ELSE TaskResult(TaskResponse(200, "", <<ts[id.n]>>), ts)

\* a replacement of the document: fields the body lacks fall back to defaults
assignWithDefaults(doc, body) ==
    [doc EXCEPT
        !.title = IF body.title # Undefined THEN Trim(body.title) ELSE @,
        !.description = Trim(body.description),
        !.status = IF body.status # Undefined THEN body.status ELSE "todo",
        !.priority = IF body.priority # Undefined THEN body.priority ELSE "medium",
        !.dueDate = body.dueDate]

\* Object.assign(task, req.body)
assignWithOwner(doc, body) ==
    [doc EXCEPT
        !.title = IF body.title # Undefined THEN Trim(body.title) ELSE @,
        !.description = IF body.description # Undefined THEN Trim(body.description) ELSE @,
        !.status = IF body.status # Undefined THEN body.status ELSE @,
        !.priority = IF body.priority # Undefined THEN body.priority ELSE @,
        !.dueDate = IF body.dueDate # Undefined THEN body.dueDate ELSE @,
        !.createdBy = IF body.createdBy # 0 THEN body.createdBy ELSE @]

\* the assignments of updateTask: only the fields the body carries
assign(doc, body) ==
    [doc EXCEPT
        !.title = IF body.title # Undefined THEN Trim(body.title) ELSE @,
        !.description = IF body.description # Undefined THEN Trim(body.description) ELSE @,
        !.status = IF body.status # Undefined THEN body.status ELSE @,
        !.priority = IF body.priority # Undefined THEN body.priority ELSE @,
        !.dueDate = IF body.dueDate # Undefined THEN body.dueDate ELSE @]

updateTask(ts, uid, id, body) ==
    IF ~id.hex
    THEN TaskResult(castErrorResponse("Server error while updating task"), ts)
    ELSE IF findOne(ts, id, uid) = {}
    THEN TaskResult(TaskResponse(404, "Task not found", <<>>), ts)
    ELSE LET doc == assign(ts[id.n], body) IN
         IF ~validateTask(doc)
         THEN TaskResult(TaskResponse(500, "Server error while updating task", <<>>), ts)
         ELSE TaskResult(TaskResponse(200, "Task updated successfully", <<doc>>),
                         [ts EXCEPT ![id.n] = doc])

\* getProfile: the user object built from req.user; reading a field of a
\* req.user that is not set throws inside the try block
getProfile(us, uid) ==
    IF uid \notin DOMAIN us
    THEN TaskResponse(500, "Server error while fetching profile", <<>>)
    ELSE TaskResponse(200, "", <<userJson(us[uid], uid)>>)

deleteTask(ts, uid, id) ==
    IF ~id.hex
    THEN TaskResult(castErrorResponse("Server error while deleting task"), ts)
    ELSE IF findOneAndDelete(ts, id, uid) = {}
    THEN TaskResult(TaskResponse(404, "Task not found", <<>>), ts)
    ELSE TaskResult(TaskResponse(200, "Task deleted successfully", <<ts[id.n]>>),
                    Without(ts, id.n))

\* ------------------------------------------------------------------ task requests
NoFields == Fields(Undefined, Undefined, Undefined, Undefined, Undefined)

ShipV1 == Fields("Ship v1", Undefined, Undefined, Undefined, Undefined)
StatusDone == Fields(Undefined, Undefined, "done", Undefined, Undefined)

\* bodies of POST /tasks
CreateBodies ==
    {ShipV1,
     Fields("Fix bug", "by Friday", "done", "high", "2026-01-01"),
     Fields(" ab ", Undefined, Undefined, Undefined, Undefined),
     NoFields}

\* bodies of PUT /tasks/:id
UpdateBodies ==
    {StatusDone,
     Fields(Undefined, Undefined, "blocked", Undefined, Undefined)}

\* the Authorization headers a client can send: none, junk, a refresh token
\* in place of the access token, or an access token the server has handed out
Headers ==
    {NoHeader, Bearer(Garbage)}
    \cup {Bearer(Sign("refresh", i[1], i[2], RefreshExpire)) : i \in {j \in issued : j[1] = 1}}
    \cup {Bearer(Sign("access", i[1], i[2], AccessExpire)) : i \in issued}

\* the ids a client can name: every id handed out so far, the next one, junk
Ids == {Id(n) : n \in 1..nextTaskId} \cup {BadId}

\* a request to a task route: the guard, then the handler
Handle(op, header, id, body, out) ==
    LET guard == protect(users, now, header) IN
    /\ req' = TaskRequest(op, header, id, body)
    /\ IF guard.status # 0
       THEN /\ res' = TaskResponse(guard.status, guard.message, <<>>)
            /\ tasks' = tasks
       ELSE /\ res' = out.res
            /\ tasks' = out.tasks
    /\ users' = guardedStore(users, now, header)
    /\ UNCHANGED <<now, issued, regPassword, loggedOut, inflight>>

Caller(header) == protect(users, now, header).user

\* a request the guard rejects never reaches its handler: one id and one body
\* stand for all of them
IdsWith(header) == IF Caller(header) # 0 THEN Ids ELSE {Id(1)}
BodiesWith(header, bodies, one) == IF Caller(header) # 0 THEN bodies ELSE {one}

\* nor does updateTask read the body when it finds no task of the caller's
BodiesFor(header, id, bodies, one) ==
    IF Caller(header) # 0 /\ id.hex /\ findOne(tasks, id, Caller(header)) # {}
    THEN bodies ELSE {one}

CreateWith(headers, bodies) ==
    \E header \in headers : \E body \in BodiesWith(header, bodies, ShipV1) :
        LET out == createTask(tasks, Caller(header), body, nextTaskId) IN
        /\ Handle("create", header, Id(0), body, out)
        /\ nextTaskId' = IF Caller(header) # 0 /\ out.res.status = 201
                         THEN nextTaskId + 1 ELSE nextTaskId
        /\ nextTaskId' <= MaxTasks + 1

CreateTask == CreateWith(Headers, CreateBodies)

ListWith(headers) ==
    \E header \in headers :
        /\ Handle("list", header, Id(0), NoFields, getTasks(tasks, Caller(header)))
        /\ UNCHANGED nextTaskId

GetTasks == ListWith(Headers)

GetWith(headers) ==
    \E header \in headers : \E id \in IdsWith(header) :
        /\ Handle("get", header, id, NoFields, getTaskById(tasks, Caller(header), id))
        /\ UNCHANGED nextTaskId

GetTaskById == GetWith(Headers)

UpdateWith(headers, bodies) ==
    \E header \in headers : \E id \in IdsWith(header) :
      \E body \in BodiesFor(header, id, bodies, StatusDone) :
        /\ Handle("update", header, id, body, updateTask(tasks, Caller(header), id, body))
        /\ UNCHANGED nextTaskId

UpdateTask == UpdateWith(Headers, UpdateBodies)

DeleteWith(headers) ==
    \E header \in headers : \E id \in IdsWith(header) :
        /\ Handle("delete", header, id, NoFields, deleteTask(tasks, Caller(header), id))
        /\ UNCHANGED nextTaskId

DeleteTask == DeleteWith(Headers)

\* GET /auth/profile: the guard, then getProfile
ProfileWith(headers) ==
    \E header \in headers :
        /\ Handle("profile", header, Id(0), NoFields,
                  TaskResult(getProfile(users, Caller(header)), tasks))
        /\ UNCHANGED nextTaskId

GetProfile == ProfileWith(Headers)

\* the auth routes
Next == Tick \/ Register \/ Login \/ Refresh \/ Logout \/ GetProfile

Spec == Init /\ [][Next]_vars

\* the state after Jo and Al have registered in second 0
InitTasks ==
    LET jo == register(<<>>, 0, "Jo", "jo@x.io", "secret1")
        al == register(jo.users, 0, "Al", "al@x.io", "secret2")
    IN  /\ users = al.users
        /\ tasks = <<>>
        /\ nextTaskId = 1
        /\ now = 0
        /\ issued = Delivered(jo.res) \cup Delivered(al.res)
        /\ regPassword = <<"secret1", "secret2">>
        /\ loggedOut = <<FALSE, FALSE>>
        /\ req = AuthRequest("register", "Al", "al@x.io", "secret2", Null)
        /\ res = al.res
        /\ inflight = NoInflight

NextTasks == Tick \/ CreateTask \/ GetTasks \/ GetTaskById \/ UpdateTask \/ DeleteTask

SpecTasks == InitTasks /\ [][NextTasks]_vars

\* ------------------------------------------------------------------ guarded routes
\* Every route behind protect, called with every kind of Authorization
\* header; the bodies are one valid create and one valid update.

\* an access token of an account whose record has since been removed from
\* the collection
Orphan == generateAccessToken(MaxUsers + 1, 0)

\* also another scheme in front of a valid token, and the token of a removed
\* account
GuardHeaders ==
    Headers
    \cup {Bearer(Orphan)}
    \cup {[scheme |-> "Basic", token |-> generateAccessToken(i[1], i[2])] :
            i \in {j \in issued : j[1] = 1 /\ j[2] = now}}

GuardedCreate == CreateWith(GuardHeaders, {ShipV1})
GuardedList == ListWith(GuardHeaders)
GuardedGet == GetWith(GuardHeaders)
GuardedUpdate == UpdateWith(GuardHeaders, {StatusDone})
GuardedDelete == DeleteWith(GuardHeaders)
GuardedProfile == ProfileWith(GuardHeaders)

NextGuard ==
    \/ Tick
    \/ GuardedCreate \/ GuardedList \/ GuardedGet
    \/ GuardedUpdate \/ GuardedDelete \/ GuardedProfile

SpecGuard == InitTasks /\ [][NextGuard]_vars

\* ------------------------------------------------------------------ task fields
\* The task routes called by the two registered users while their access
\* tokens are valid, with bodies that exercise every constraint of the schema.

\* strings of 100, 101 and 501 characters
Ten == "xxxxxxxxxx"
Hundred == Ten \o Ten \o Ten \o Ten \o Ten \o Ten \o Ten \o Ten \o Ten \o Ten
LongTitle == Hundred \o "x"
LongDescription == Hundred \o Hundred \o Hundred \o Hundred \o Hundred \o "x"

\* valid bodies, one of them naming user 1 as the owner, then a title that is
\* too short once trimmed, one that is too long, a status and a priority
\* outside the enum, and a body without a title
CreateFieldBodies ==
    {ShipV1,
     WithOwner(ShipV1, 1),
     Fields("Fix bug", "by Friday", "done", "high", "2026-01-01"),
     Fields(" ab ", Undefined, Undefined, Undefined, Undefined),
     Fields(LongTitle, Undefined, Undefined, Undefined, Undefined),
     Fields("Ship v1", Undefined, "blocked", Undefined, Undefined),
     Fields("Ship v1", Undefined, Undefined, "urgent", Undefined),
     NoFields}

\* a new status, a new title and priority with an owner named by the client,
\* then one violation of each constraint
UpdateFieldBodies ==
    {StatusDone,
     WithOwner(Fields("Ship v2", Undefined, Undefined, "low", Undefined), 1),
     Fields(Undefined, Undefined, "blocked", Undefined, Undefined),
     Fields(Undefined, Undefined, Undefined, "urgent", Undefined),
     Fields(" ab ", Undefined, Undefined, Undefined, Undefined),
     Fields(Undefined, LongDescription, Undefined, Undefined, Undefined)}

\* the access tokens that registration handed to the users
FieldCallers == {Bearer(generateAccessToken(u, 0)) : u \in DOMAIN users}

CreateTaskFields == CreateWith(FieldCallers, CreateFieldBodies)
UpdateTaskFields == UpdateWith(FieldCallers, UpdateFieldBodies)
DeleteTaskFields == DeleteWith(FieldCallers)

NextTaskFields == CreateTaskFields \/ UpdateTaskFields \/ DeleteTaskFields

SpecTaskFields == InitTasks /\ [][NextTaskFields]_vars

\* ------------------------------------------------------------------ interleaved refresh
\* refresh suspends at each await: after the synchronous prefix (cookie check
\* and jwt.verify) it waits for User.findById, then compares, signs and
\* assigns in one synchronous piece, then waits for save.
Idle == [pc |-> "idle", cookie |-> Null, found |-> Null, minted |-> Null, status |-> 0]

Requests == 1..MaxInflight

\* the state after Jo has registered in second 0 and one second has passed
InitRace ==
    LET out == register(<<>>, 0, "Jo", "jo@x.io", "secret1") IN
    /\ users = out.users
    /\ tasks = <<>>
    /\ nextTaskId = 1
    /\ now = 1
    /\ issued = Delivered(out.res)
    /\ regPassword = <<"secret1">>
    /\ loggedOut = <<FALSE>>
    /\ req = AuthRequest("register", "Jo", "jo@x.io", "secret1", Null)
    /\ res = out.res
    /\ inflight = [i \in Requests |-> Idle]

Answer(i, cookie, r) ==
    /\ inflight' = [inflight EXCEPT ![i].pc = "done", ![i].cookie = cookie,
                                    ![i].status = r.status]
    /\ req' = AuthRequest("refresh", "", "", "", cookie)
    /\ res' = r

\* the request arrives: the code up to the first await
RefreshArrives(i) ==
    /\ inflight[i].pc = "idle"
    /\ \E cookie \in Presentable :
        IF cookie = Null
        THEN Answer(i, cookie, Fail(401, "No refresh token provided"))
        ELSE IF Verify(cookie, "refresh", now) # "ok"
        THEN Answer(i, cookie, Fail(401, "Invalid or expired refresh token"))
        ELSE /\ inflight' = [inflight EXCEPT ![i].pc = "findById", ![i].cookie = cookie]
             /\ UNCHANGED <<req, res>>
    /\ UNCHANGED <<users, tasks, nextTaskId, now, issued, regPassword, loggedOut>>

\* the store executes User.findById(decoded.id).select('+refreshToken')
RefreshFinds(i) ==
    /\ inflight[i].pc = "findById"
    /\ IF inflight[i].cookie.id \notin DOMAIN users
       THEN Answer(i, inflight[i].cookie, Fail(401, "User not found"))
       ELSE /\ inflight' = [inflight EXCEPT ![i].pc = "compare",
                               ![i].found = users[inflight[i].cookie.id].refreshToken]
            /\ UNCHANGED <<req, res>>
    /\ UNCHANGED <<users, tasks, nextTaskId, now, issued, regPassword, loggedOut>>

\* the handler resumes: the comparison, jwt.sign and the assignment
RefreshCompares(i) ==
    /\ inflight[i].pc = "compare"
    /\ IF ~tokenMatches(inflight[i].found, inflight[i].cookie)
       THEN Answer(i, inflight[i].cookie, Fail(401, "Invalid refresh token"))
       ELSE /\ inflight' = [inflight EXCEPT ![i].pc = "save",
                               ![i].minted = signRefreshToken(inflight[i].cookie.id, now)]
            /\ UNCHANGED <<req, res>>
    /\ UNCHANGED <<users, tasks, nextTaskId, now, issued, regPassword, loggedOut>>

\* the store executes the save: it writes the paths the document modified
RefreshSaves(i) ==
    LET r == inflight[i] IN
    /\ r.pc = "save"
    /\ users' = IF r.minted = r.found THEN users
                ELSE [users EXCEPT ![r.cookie.id].refreshToken = r.minted]
    /\ Answer(i, r.cookie,
              Response(200, "Token refreshed successfully", "set", r.minted,
                       Sign("access", r.minted.id, r.minted.iat, AccessExpire)))
    /\ issued' = issued \cup {<<r.minted.id, r.minted.iat>>}
    /\ UNCHANGED <<tasks, nextTaskId, now, regPassword, loggedOut>>

NextRace ==
    \/ Tick
    \/ \E i \in Requests : RefreshArrives(i)
    \/ \E i \in Requests : RefreshFinds(i)
    \/ \E i \in Requests : RefreshCompares(i)
    \/ \E i \in Requests : RefreshSaves(i)

SpecRefreshRace == InitRace /\ [][NextRace]_vars

\* ------------------------------------------------------------------ interleaved register
\* register suspends at each await: after the check of the body it waits for
\* User.findOne, then for User.create (validation, the pre-save hash and the
\* insert, which the unique index guards), then for the save of
\* generateRefreshToken.
IdleRegister == [pc |-> "idle", body |-> Body("", "", ""), id |-> 0, status |-> 0, message |-> ""]

\* bodies of the interleaved requests: valid ones, and one with a field missing
RaceBodies ==
    {Body("Jo", "jo@x.io", "secret1"), Body("Jo", "JO@x.io", "secret1"),
     Body("Al", "al@x.io", "secret2"), Body("", "al@x.io", "secret2")}

InitRegisterRace ==
    /\ users = <<>>
    /\ tasks = <<>>
    /\ nextTaskId = 1
    /\ now = 0
    /\ issued = {}
    /\ regPassword = <<>>
    /\ loggedOut = <<>>
    /\ req = NoRequest
    /\ res = Fail(0, "")
    /\ inflight = [i \in Requests |-> IdleRegister]

AnswerRegister(i, body, r) ==
    /\ inflight' = [inflight EXCEPT ![i].pc = "done", ![i].body = body,
                                    ![i].status = r.status, ![i].message = r.message]
    /\ req' = AuthRequest("register", body.name, body.email, body.password, Null)
    /\ res' = r

\* the request arrives: the code up to the first await
RegisterArrives(i) ==
    /\ inflight[i].pc = "idle"
    /\ \E body \in RaceBodies :
        IF body.name = "" \/ body.email = "" \/ body.password = ""
        THEN AnswerRegister(i, body, Fail(400, "Please provide name, email, and password"))
        ELSE /\ inflight' = [inflight EXCEPT ![i].pc = "findOne", ![i].body = body]
             /\ UNCHANGED <<req, res>>
    /\ UNCHANGED <<users, tasks, nextTaskId, now, issued, regPassword, loggedOut>>

\* the store executes User.findOne({ email })
RegisterFinds(i) ==
    /\ inflight[i].pc = "findOne"
    /\ IF findByEmail(users, inflight[i].body.email) # {}
       THEN AnswerRegister(i, inflight[i].body, Fail(400, "User with this email already exists"))
       ELSE /\ inflight' = [inflight EXCEPT ![i].pc = "create"]
            /\ UNCHANGED <<req, res>>
    /\ UNCHANGED <<users, tasks, nextTaskId, now, issued, regPassword, loggedOut>>

\* User.create: validation, the pre-save hash, then the insert at the store
RegisterCreates(i) ==
    LET body == inflight[i].body
        doc == [name |-> body.name, email |-> LowerCase(body.email),
                password |-> Plain(body.password), refreshToken |-> Null]
    IN  /\ inflight[i].pc = "create"
        /\ IF ~validateUser(doc) \/ duplicateKey(users, doc)
           THEN /\ AnswerRegister(i, body, Fail(500, "Server error during registration"))
                /\ UNCHANGED <<users, regPassword, loggedOut>>
           ELSE /\ Len(users) < MaxUsers
                /\ users' = Append(users, preSave(doc, {"name", "email", "password"}, genSalt(users)))
                /\ inflight' = [inflight EXCEPT ![i].pc = "save", ![i].id = Len(users) + 1]
                /\ regPassword' = Append(regPassword, body.password)
                /\ loggedOut' = Append(loggedOut, FALSE)
                /\ UNCHANGED <<req, res>>
        /\ UNCHANGED <<tasks, nextTaskId, now, issued>>

\* generateAccessToken, then jwt.sign and the save of generateRefreshToken
RegisterSaves(i) ==
    LET id == inflight[i].id IN
    /\ inflight[i].pc = "save"
    /\ users' = generateRefreshToken(users, id, now)
    /\ AnswerRegister(i, inflight[i].body,
                      WithUser(Response(201, "User registered successfully", "set",
                                        signRefreshToken(id, now), generateAccessToken(id, now)),
                               userJson(users[id], id)))
    /\ issued' = issued \cup {<<id, now>>}
    /\ UNCHANGED <<tasks, nextTaskId, now, regPassword, loggedOut>>

NextRegisterRace ==
    \/ Tick
    \/ \E i \in Requests : RegisterArrives(i)
    \/ \E i \in Requests : RegisterFinds(i)
    \/ \E i \in Requests : RegisterCreates(i)
    \/ \E i \in Requests : RegisterSaves(i)

SpecRegisterRace == InitRegisterRace /\ [][NextRegisterRace]_vars

\* ------------------------------------------------------------------ register with a failing store
\* The interleaved register, with every awaited store call free to fail.

\* the awaited call rejects (the connection drops, the store times out): the
\* catch block answers 500; what the store did before stays done
RegisterAwaitRejects(i) ==
    /\ inflight[i].pc \in {"findOne", "create", "save"}
    /\ AnswerRegister(i, inflight[i].body, Fail(500, "Server error during registration"))
    /\ UNCHANGED <<users, tasks, nextTaskId, now, issued, regPassword, loggedOut>>

NextRegisterFaults ==
    \/ Tick
    \/ \E i \in Requests : RegisterArrives(i)
    \/ \E i \in Requests : RegisterFinds(i)
    \/ \E i \in Requests : RegisterCreates(i)
    \/ \E i \in Requests : RegisterSaves(i)
    \/ \E i \in Requests : RegisterAwaitRejects(i)

SpecRegisterFaults == InitRegisterRace /\ [][NextRegisterFaults]_vars

\* ------------------------------------------------------------------ interleaved update and delete
\* updateTask suspends at its two awaits: Task.findOne, then task.save();
\* deleteTask is the single store call Task.findOneAndDelete.  The requests
\* are sent by the two registered users, past the guard, for the one task
\* that user 1 has created.
NoTask == newTask(NoFields, 0, 0)

IdleTask ==
    [pc |-> "idle", op |-> "none", uid |-> 0, body |-> NoFields,
     doc |-> NoTask, paths |-> {}, status |-> 0]

\* the id every request names
RaceId == Id(1)

\* bodies of the interleaved updates: a new status, the title the task
\* already has, a status outside the enum
RaceUpdateBodies ==
    {StatusDone, ShipV1,
     Fields(Undefined, Undefined, "blocked", Undefined, Undefined)}

InitTaskRace ==
    LET jo == register(<<>>, 0, "Jo", "jo@x.io", "secret1")
        al == register(jo.users, 0, "Al", "al@x.io", "secret2")
        made == createTask(<<>>, 1, ShipV1, 1)
    IN  /\ users = al.users
        /\ tasks = made.tasks
        /\ nextTaskId = 2
        /\ now = 0
        /\ issued = Delivered(jo.res) \cup Delivered(al.res)
        /\ regPassword = <<"secret1", "secret2">>
        /\ loggedOut = <<FALSE, FALSE>>
        /\ req = TaskRequest("create", Bearer(generateAccessToken(1, 0)), Id(0), ShipV1)
        /\ res = made.res
        /\ inflight = [i \in Requests |-> IdleTask]

AnswerTask(i, r) ==
    /\ inflight' = [inflight EXCEPT ![i].pc = "done", ![i].status = r.status]
    /\ req' = TaskRequest(inflight[i].op, Bearer(generateAccessToken(inflight[i].uid, 0)),
                          RaceId, inflight[i].body)
    /\ res' = r

\* the request passes the guard and reaches its handler: the code up to the
\* first await
TaskArrives(i) ==
    /\ inflight[i].pc = "idle"
    /\ \E uid \in DOMAIN users :
        \/ \E body \in RaceUpdateBodies :
            inflight' = [inflight EXCEPT ![i].pc = "findOne", ![i].op = "update",
                                         ![i].uid = uid, ![i].body = body]
        \/ inflight' = [inflight EXCEPT ![i].pc = "findOneAndDelete", ![i].op = "delete",
                                        ![i].uid = uid]
    /\ UNCHANGED <<users, tasks, nextTaskId, now, issued, regPassword, loggedOut, req, res>>

\* the paths of the document that the assignments have changed
modifiedPaths(doc, changed) == {f \in DOMAIN doc : changed[f] # doc[f]}

\* the store executes Task.findOne; the handler resumes, assigns the fields
\* of the body and calls task.save()
UpdateFinds(i) ==
    LET call == inflight[i] IN
    /\ call.pc = "findOne"
    /\ IF findOne(tasks, RaceId, call.uid) = {}
       THEN AnswerTask(i, TaskResponse(404, "Task not found", <<>>))
       ELSE /\ inflight' = [inflight EXCEPT
                               ![i].pc = "save",
                               ![i].doc = assign(tasks[RaceId.n], call.body),
                               ![i].paths = modifiedPaths(tasks[RaceId.n],
                                                          assign(tasks[RaceId.n], call.body))]
            /\ UNCHANGED <<req, res>>
    /\ UNCHANGED <<users, tasks, nextTaskId, now, issued, regPassword, loggedOut>>

saveDocumentUpsert(ts, k, doc, paths) ==
    [ok |-> TRUE,
     tasks |-> IF k \in DOMAIN ts THEN [ts EXCEPT ![k] = doc] ELSE ts @@ (k :> doc)]

\* document.save() of a document read from the store: an update of the
\* modified paths of the document with this _id (a lookup of it when no path
\* is modified), which fails with DocumentNotFoundError when there is none
saveDocument(ts, k, doc, paths) ==
    IF k \notin DOMAIN ts
    THEN [ok |-> FALSE, tasks |-> ts]
    ELSE [ok |-> TRUE,
          tasks |-> [ts EXCEPT ![k] = [f \in DOMAIN doc |->
                                          IF f \in paths THEN doc[f] ELSE @[f]]]]

\* task.save(): validation, then the write at the store; an error of either
\* lands in the catch block
UpdateSaves(i) ==
    LET call == inflight[i]
        saved == saveDocument(tasks, RaceId.n, call.doc, call.paths)
    IN  /\ call.pc = "save"
        /\ IF ~validateTask(call.doc) \/ ~saved.ok
           THEN /\ AnswerTask(i, TaskResponse(500, "Server error while updating task", <<>>))
                /\ tasks' = tasks
           ELSE /\ AnswerTask(i, TaskResponse(200, "Task updated successfully", <<call.doc>>))
                /\ tasks' = saved.tasks
        /\ UNCHANGED <<users, nextTaskId, now, issued, regPassword, loggedOut>>

\* the store executes Task.findOneAndDelete and the handler answers
DeleteExecutes(i) ==
    LET out == deleteTask(tasks, inflight[i].uid, RaceId) IN
    /\ inflight[i].pc = "findOneAndDelete"
    /\ AnswerTask(i, out.res)
    /\ tasks' = out.tasks
    /\ UNCHANGED <<users, nextTaskId, now, issued, regPassword, loggedOut>>

NextTaskRace ==
    \/ \E i \in Requests : TaskArrives(i)
    \/ \E i \in Requests : UpdateFinds(i)
    \/ \E i \in Requests : UpdateSaves(i)
    \/ \E i \in Requests : DeleteExecutes(i)

SpecTaskRace == InitTaskRace /\ [][NextTaskRace]_vars

\* ------------------------------------------------------------------ interleaved login and refresh
\* login suspends at its three awaits: User.findOne, comparePassword and the
\* save of generateRefreshToken; it interleaves with the refresh requests
\* above, which keep their steps.  email is "" in a refresh request.
IdleSession ==
    [pc |-> "idle", cookie |-> Null, found |-> Null, minted |-> Null, status |-> 0,
     email |-> "", password |-> "", id |-> 0]

\* bodies of the interleaved logins: Jo's password, a wrong one, no password
SessionBodies ==
    {Body("", "jo@x.io", "secret1"), Body("", "jo@x.io", "secret2"),
     Body("", "jo@x.io", "")}

\* the state after Jo has registered in second 0
InitSessionRace ==
    LET out == register(<<>>, 0, "Jo", "jo@x.io", "secret1") IN
    /\ users = out.users
    /\ tasks = <<>>
    /\ nextTaskId = 1
    /\ now = 0
    /\ issued = Delivered(out.res)
    /\ regPassword = <<"secret1">>
    /\ loggedOut = <<FALSE>>
    /\ req = AuthRequest("register", "Jo", "jo@x.io", "secret1", Null)
    /\ res = out.res
    /\ inflight = [i \in Requests |-> IdleSession]

AnswerLogin(i, body, r) ==
    /\ inflight' = [inflight EXCEPT ![i].pc = "done", ![i].email = body.email,
                                    ![i].password = body.password, ![i].status = r.status]
    /\ req' = AuthRequest("login", "", body.email, body.password, Null)
    /\ res' = r

\* the request arrives: the code up to the first await
LoginArrives(i) ==
    /\ inflight[i].pc = "idle"
    /\ \E body \in SessionBodies :
        IF body.email = "" \/ body.password = ""
        THEN AnswerLogin(i, body, Fail(400, "Please provide email and password"))
        ELSE /\ inflight' = [inflight EXCEPT ![i].pc = "findOne", ![i].email = body.email,
                                             ![i].password = body.password]
             /\ UNCHANGED <<req, res>>
    /\ UNCHANGED <<users, tasks, nextTaskId, now, issued, regPassword, loggedOut>>

\* the store executes User.findOne({ email }).select('+password')
LoginFinds(i) ==
    LET call == inflight[i] IN
    /\ call.pc = "findOne"
    /\ IF findByEmail(users, call.email) = {}
       THEN AnswerLogin(i, call, unknownEmailResponse)
       ELSE /\ inflight' = [inflight EXCEPT ![i].pc = "comparePassword",
                               ![i].id = CHOOSE u \in findByEmail(users, call.email) : TRUE]
            /\ UNCHANGED <<req, res>>
    /\ UNCHANGED <<users, tasks, nextTaskId, now, issued, regPassword, loggedOut>>

\* bcrypt.compare resolves; the handler resumes, signs both tokens and
\* assigns the refresh token to the document
LoginCompares(i) ==
    LET call == inflight[i] IN
    /\ call.pc = "comparePassword"
    /\ IF ~comparePassword(call.password, users[call.id].password)
       THEN AnswerLogin(i, call, wrongPasswordResponse)
       ELSE /\ inflight' = [inflight EXCEPT ![i].pc = "saveLogin",
                                            ![i].minted = signRefreshToken(call.id, now)]
            /\ UNCHANGED <<req, res>>
    /\ UNCHANGED <<users, tasks, nextTaskId, now, issued, regPassword, loggedOut>>

\* the store executes the save: refreshToken was not selected by the query
\* of login, so the assignment always marks it modified
LoginSaves(i) ==
    LET call == inflight[i] IN
    /\ call.pc = "saveLogin"
    /\ users' = [users EXCEPT ![call.id].refreshToken = call.minted]
    /\ AnswerLogin(i, call,
                   WithUser(Response(200, "Login successful", "set", call.minted,
                                     Sign("access", call.minted.id, call.minted.iat,
                                          AccessExpire)),
                            userJson(users[call.id], call.id)))
    /\ issued' = issued \cup {<<call.minted.id, call.minted.iat>>}
    /\ loggedOut' = [loggedOut EXCEPT ![call.id] = FALSE]
    /\ UNCHANGED <<tasks, nextTaskId, now, regPassword>>

NextSessionRace ==
    \/ Tick
    \/ \E i \in Requests : LoginArrives(i)
    \/ \E i \in Requests : LoginFinds(i)
    \/ \E i \in Requests : LoginCompares(i)
    \/ \E i \in Requests : LoginSaves(i)
    \/ \E i \in Requests : RefreshArrives(i)
    \/ \E i \in Requests : RefreshFinds(i)
    \/ \E i \in Requests : RefreshCompares(i)
    \/ \E i \in Requests : RefreshSaves(i)

SpecSessionRace == InitSessionRace /\ [][NextSessionRace]_vars

\* ------------------------------------------------------------------ faults
\* One request from its arrival to its response, with every awaited call
\* free to fail.  A request passes express.json(), then protect on a guarded
\* route, then its handler; each of protect and the handlers is one try
\* block whose catch answers 500 with { success: false, message }.  The
\* application registers no error-handling middleware, so an error raised by
\* express.json() is answered by the default handler of express, whose body
\* is an HTML page.

\* the calls each route awaits, in order
Awaits ==
    [register |-> <<"findOne", "create", "save">>,
     login |-> <<"findOne", "comparePassword", "save">>,
     refresh |-> <<"findById", "save">>,
     logout |-> <<"findByIdAndUpdate">>,
     profile |-> <<"protect">>,
     createTask |-> <<"protect", "create">>,
     getTasks |-> <<"protect", "find">>,
     getTaskById |-> <<"protect", "findOne">>,
     updateTask |-> <<"protect", "findOne", "save">>,
     deleteTask |-> <<"protect", "findOneAndDelete">>]

Routes == DOMAIN Awaits

\* the routes whose request carries a JSON body
BodyRoutes == {"register", "login", "createTask", "updateTask"}

IdleCall == [pc |-> "idle", route |-> "", at |-> 0, sent |-> 0, status |-> 0, envelope |-> FALSE]

InitFaults ==
    /\ users = <<>>
    /\ tasks = <<>>
    /\ nextTaskId = 1
    /\ now = 0
    /\ issued = {}
    /\ regPassword = <<>>
    /\ loggedOut = <<>>
    /\ req = NoRequest
    /\ res = Fail(0, "")
    /\ inflight = [i \in Requests |-> IdleCall]

\* res.status(status).json(...) when envelope, the error page of express otherwise
Send(i, status, envelope) ==
    inflight' = [inflight EXCEPT ![i].pc = "done", ![i].sent = @ + 1,
                                 ![i].status = status, ![i].envelope = envelope]

\* the request passes express.json() and reaches its route
CallArrives(i) ==
    /\ inflight[i].pc = "idle"
    /\ \E route \in Routes :
        inflight' = [inflight EXCEPT ![i].pc = "running", ![i].route = route, ![i].at = 1]
    /\ UNCHANGED <<users, tasks, nextTaskId, now, issued, regPassword, loggedOut, req, res>>

\* express.json() cannot parse the body and calls next(err)
BodyMalformed(i) ==
    /\ inflight[i].pc = "idle"
    /\ \E route \in BodyRoutes :
        inflight' = [inflight EXCEPT ![i].pc = "done", ![i].route = route, ![i].sent = @ + 1,
                                     ![i].status = 400, ![i].envelope = FALSE]
    /\ UNCHANGED <<users, tasks, nextTaskId, now, issued, regPassword, loggedOut, req, res>>

\* the awaited call resolves and the code goes on to the next await, or
\* sends its success response after the last one
AwaitResolves(i) ==
    LET call == inflight[i] IN
    /\ call.pc = "running"
    /\ IF call.at < Len(Awaits[call.route])
       THEN inflight' = [inflight EXCEPT ![i].at = @ + 1]
       ELSE Send(i, 200, TRUE)
    /\ UNCHANGED <<users, tasks, nextTaskId, now, issued, regPassword, loggedOut, req, res>>

\* the awaited call resolves and the code returns one of its 4xx responses
AwaitRejects(i) ==
    /\ inflight[i].pc = "running"
    /\ \E status \in {400, 401, 404} : Send(i, status, TRUE)
    /\ UNCHANGED <<users, tasks, nextTaskId, now, issued, regPassword, loggedOut, req, res>>

\* the awaited call fails: the catch block of protect or of the handler
AwaitThrows(i) ==
    /\ inflight[i].pc = "running"
    /\ Send(i, 500, TRUE)
    /\ UNCHANGED <<users, tasks, nextTaskId, now, issued, regPassword, loggedOut, req, res>>

NextFaults ==
    \/ \E i \in Requests : CallArrives(i)
    \/ \E i \in Requests : BodyMalformed(i)
    \/ \E i \in Requests : AwaitResolves(i)
    \/ \E i \in Requests : AwaitRejects(i)
    \/ \E i \in Requests : AwaitThrows(i)

SpecFaults == InitFaults /\ [][NextFaults]_vars

\* ------------------------------------------------------------------ properties
RefreshTokenOf(i) == Sign("refresh", i[1], i[2], RefreshExpire)

\* C1: refresh rotation is single-use: after a refresh with R1 has succeeded,
\* it has yielded a token R2 other than R1 and a second refresh with R1 is
\* answered 401.
C1_RefreshSingleUse ==
    (req.op = "refresh" /\ res.status = 200)
        => /\ res.refreshToken # req.cookie
           /\ refresh(users, now, req.cookie).res.status = 401

\* C3: a refresh request succeeds exactly when the presented token is signed
\* with the refresh secret, unexpired and equal to the token stored on the
\* record of the user its payload names; every other request gets 401.
C3_RefreshOnlyStoredToken ==
    [][(req'.op = "refresh" /\ now' = now)
        => IF /\ Verify(req'.cookie, "refresh", now) = "ok"
              /\ req'.cookie.id \in DOMAIN users
              /\ users[req'.cookie.id].refreshToken = req'.cookie
           THEN res'.status = 200
           ELSE res'.status = 401]_vars

C3_Witness ==
    /\ req.op = "refresh" /\ res.status = 200
    /\ users[req.cookie.id].refreshToken # req.cookie

\* C4: from a logout whose cookie decodes to user U until U's next login,
\* every refresh presenting a refresh token issued to U is answered 401, and
\* U's record holds no refresh token.
C4_LogoutRevokes ==
    \A u \in DOMAIN users :
        loggedOut[u] =>
            /\ users[u].refreshToken = Null
            /\ (req.op = "refresh" /\ req.cookie \in {RefreshTokenOf(i) : i \in issued}
                    /\ req.cookie.id = u)
                => res.status = 401

C4_Witness ==
    \E u \in DOMAIN users :
        /\ loggedOut[u]
        /\ req.op = "refresh" /\ req.cookie \in {RefreshTokenOf(i) : i \in issued}
        /\ req.cookie.id = u
        /\ Verify(req.cookie, "refresh", now) = "ok"
        /\ res.status = 401

\* C5: logout answers 200 and clears the refresh cookie for every cookie
\* value, absent, malformed, expired, wrongly signed or already invalidated.
C5_LogoutAlwaysSucceeds ==
    req.op = "logout" => (res.status = 200 /\ res.cookie = "cleared")

\* C9: after any sequence of register, login, refresh and logout, every
\* user's stored hash still verifies the password given at registration, a
\* login with that password is answered 200 and a login with another
\* password is answered 401 Invalid credentials.
C9_PasswordLogin ==
    /\ \A u \in DOMAIN users : comparePassword(regPassword[u], users[u].password)
    /\ \A u \in DOMAIN users :
        (req.op = "login" /\ req.password # "" /\ users[u].email = LowerCase(req.email))
            => IF req.password = regPassword[u]
               THEN res.status = 200
               ELSE res = Fail(401, "Invalid credentials")

C9_Witness ==
    /\ req.op = "login" /\ res.status = 200
    /\ Cardinality({i \in issued : i[1] = res.refreshToken.id}) >= 2
    /\ \E u \in DOMAIN users : loggedOut[u]

\* C10: a login with an unknown email and a login with a known email and a
\* wrong password get the same response, 401 Invalid credentials with no
\* cookie and no token, and neither changes a user or a task record.
C10_LoginFailureUniform ==
    [][(/\ req'.op = "login" /\ now' = now
        /\ req'.email # "" /\ req'.password # ""
        /\ \A u \in DOMAIN users :
              users[u].email = LowerCase(req'.email) => req'.password # regPassword[u])
        => /\ res' = Fail(401, "Invalid credentials")
           /\ users' = users /\ tasks' = tasks]_vars

C10_Witness ==
    /\ req.op = "login" /\ res.status = 401
    /\ \E u \in DOMAIN users : users[u].email = LowerCase(req.email)
    /\ \E u \in DOMAIN users : users[u].email # LowerCase(req.email)

\* C2: of two refresh requests carrying the same refresh token whose reads,
\* comparisons and saves interleave, at most one is answered 200.
C2_AtMostOneRefreshWins ==
    \A i, j \in DOMAIN inflight :
        (/\ i # j
         /\ inflight[i].pc = "done" /\ inflight[j].pc = "done"
         /\ inflight[i].cookie = inflight[j].cookie)
            => ~(inflight[i].status = 200 /\ inflight[j].status = 200)

\* the identity the guard resolves for the request that the step handles
CallerOf(r) == protect(users, now, r.header).user

\* the request's target is a stored task that its caller does not own
Foreign(r) ==
    /\ r.id.hex /\ r.id.n \in DOMAIN tasks
    /\ tasks[r.id.n].createdBy # CallerOf(r)

\* C6: ownership isolation: a get, update or delete of a stored task by an
\* authenticated user other than its creator is answered 404, and a list
\* returns only tasks created by the caller.
C6_OwnershipIsolation ==
    [][(now' = now /\ req'.op \in {"get", "update", "delete", "list"} /\ CallerOf(req') # 0)
        => /\ (req'.op # "list" /\ Foreign(req')) => res'.status = 404
           /\ req'.op = "list" =>
                \A k \in 1..Len(res'.data) : res'.data[k].createdBy = CallerOf(req')]_vars

C6_Witness ==
    /\ req.op = "delete" /\ res.status = 404
    /\ req.id.hex /\ req.id.n \in DOMAIN tasks
    /\ protect(users, now, req.header).user \notin {0, tasks[req.id.n].createdBy}

\* C7: an update or delete issued by anyone but the owner of its target
\* leaves every task, the target included, as it was.
C7_NonOwnerChangesNothing ==
    [][(/\ now' = now /\ req'.op \in {"update", "delete"}
        /\ ~(/\ req'.id.hex /\ req'.id.n \in DOMAIN tasks
             /\ tasks[req'.id.n].createdBy = CallerOf(req')))
        => tasks' = tasks]_vars

C7_Witness ==
    /\ req.op = "update" /\ res.status = 404
    /\ req.id.hex /\ req.id.n \in DOMAIN tasks
    /\ protect(users, now, req.header).user \notin {0, tasks[req.id.n].createdBy}
    /\ Cardinality(DOMAIN tasks) = 2

\* C8: get, update and delete answer the same 404 body whether the id names
\* no task, names another user's task or is no well-formed identifier.
C8_NotFoundUniform ==
    [][(/\ now' = now /\ req'.op \in {"get", "update", "delete"} /\ CallerOf(req') # 0
        /\ \/ ~req'.id.hex
           \/ req'.id.n \notin DOMAIN tasks
           \/ Foreign(req'))
        => res' = TaskResponse(404, "Task not found", <<>>)]_vars

C8_Witness ==
    /\ req.op \in {"get", "update", "delete"} /\ res.status = 404
    /\ ~req.id.hex
    /\ \E k \in DOMAIN tasks : tasks[k].createdBy # protect(users, now, req.header).user

\* C11: once an email is registered, a later complete registration whose
\* email equals it up to letter case is answered 400 "User with this email
\* already exists" and creates no user record.
C11_DuplicateEmailRejected ==
    [][(/\ req'.op = "register" /\ now' = now
        /\ req'.name # "" /\ req'.email # "" /\ req'.password # ""
        /\ \E u \in DOMAIN users : users[u].email = LowerCase(req'.email))
        => /\ res' = Fail(400, "User with this email already exists")
           /\ users' = users]_vars

C11_Witness ==
    /\ req.op = "register" /\ res = Fail(400, "User with this email already exists")
    /\ req.email = "JO@x.io"
    /\ \E u \in DOMAIN users : users[u].email = "jo@x.io"

\* the complete register requests that have been answered
Answered == {i \in DOMAIN inflight : inflight[i].pc = "done" /\ inflight[i].body.name # ""}

\* C12: of interleaved register requests with the same email, one creates the
\* only record with that email and every other one is answered 400 "User
\* with this email already exists".
C12_RegisterRaceDuplicate ==
    /\ \A u, v \in DOMAIN users : users[u].email = users[v].email => u = v
    /\ \A i, j \in Answered :
        (/\ i # j
         /\ LowerCase(inflight[i].body.email) = LowerCase(inflight[j].body.email)
         /\ inflight[i].status = 201)
            => /\ inflight[j].status = 400
               /\ inflight[j].message = "User with this email already exists"

\* C13: every successful register, login or refresh hands out a refresh
\* token that was never handed out before, also within one clock second.
C13_RefreshTokenFresh ==
    [][(/\ now' = now
        /\ req'.op \in {"register", "login", "refresh"}
        /\ res'.cookie = "set")
        => <<res'.refreshToken.id, res'.refreshToken.iat>> \notin issued]_vars

\* C14: when a login of user U follows a successful login of U, the refresh
\* token that the earlier login handed out is answered 401 by refresh.
C14_SecondLoginRevokesFirst ==
    [][(/\ now' = now
        /\ req.op = "login" /\ res.status = 200
        /\ req'.op = "login" /\ res'.status = 200
        /\ res'.refreshToken.id = res.refreshToken.id)
        => refresh(users', now', res.refreshToken).res.status = 401]_vars

\* the fields a client may set, and what the schema asks of a supplied value
TaskFields == {"title", "description", "status", "priority", "dueDate"}
TitleInBounds(title) == Len(Trim(title)) >= 3 /\ Len(Trim(title)) <= 100
Statuses == {"todo", "in-progress", "done"}
Priorities == {"low", "medium", "high"}

\* C15: partial update law: a successful update gives every supplied field
\* its supplied value and leaves every other field of the task, and every
\* other task, as it was.
C15_PartialUpdate ==
    [][(req'.op = "update" /\ res'.status = 200)
        => LET k == req'.id.n IN
           /\ DOMAIN tasks' = DOMAIN tasks
           /\ \A j \in DOMAIN tasks \ {k} : tasks'[j] = tasks[j]
           /\ \A f \in TaskFields :
                tasks'[k][f] = IF req'.body[f] = Undefined THEN tasks[k][f]
                               ELSE Trim(req'.body[f])
           /\ tasks'[k].createdAt = tasks[k].createdAt]_vars

C15_Witness ==
    /\ req.op = "update" /\ res.status = 200
    /\ req.body.title # Undefined /\ req.body.status = Undefined
    /\ tasks[req.id.n].status = "done" /\ tasks[req.id.n].title = "Ship v2"

\* C16: the owner of a task is the caller that created it and no request,
\* whatever owner its body names, changes the owner of a stored task.
C16_OwnerNeverChanges ==
    [][\A k \in DOMAIN tasks' :
        IF k \in DOMAIN tasks
        THEN tasks'[k].createdBy = tasks[k].createdBy
        ELSE req'.op = "create" /\ tasks'[k].createdBy = CallerOf(req')]_vars

C16_Witness ==
    /\ req.op = "update" /\ res.status = 200
    /\ req.body.createdBy # 0
    /\ tasks[req.id.n].createdBy # req.body.createdBy

\* C17: a create whose title is absent or, once trimmed, shorter than 3 or
\* longer than 100 characters, or whose supplied status or priority is
\* outside its enum, is answered 400 and stores no task.
C17_CreateInvalidIs400 ==
    [][(/\ req'.op = "create" /\ CallerOf(req') # 0
        /\ \/ req'.body.title \in {Undefined, ""}
           \/ ~TitleInBounds(req'.body.title)
           \/ req'.body.status \notin Statuses \cup {Undefined}
           \/ req'.body.priority \notin Priorities \cup {Undefined})
        => res'.status = 400 /\ tasks' = tasks]_vars

\* C18: an update of a task of the caller's that supplies a title, a
\* description, a status or a priority violating its constraint is answered
\* 400 and leaves the stored task unchanged.
C18_UpdateInvalidIs400 ==
    [][(/\ req'.op = "update" /\ CallerOf(req') # 0
        /\ req'.id.hex /\ req'.id.n \in DOMAIN tasks
        /\ tasks[req'.id.n].createdBy = CallerOf(req')
        /\ \/ req'.body.title # Undefined /\ ~TitleInBounds(req'.body.title)
           \/ req'.body.description # Undefined /\ Len(req'.body.description) > 500
           \/ req'.body.status \notin Statuses \cup {Undefined}
           \/ req'.body.priority \notin Priorities \cup {Undefined})
        => res'.status = 400 /\ tasks' = tasks]_vars

C20_CreateDefaults ==
    /\ (/\ req.op = "create"
        /\ req.body.title \notin {Undefined, ""} /\ TitleInBounds(req.body.title)
        /\ req.body.status \in Statuses \cup {Undefined}
        /\ req.body.priority \in Priorities \cup {Undefined})
        => res.status = 201
    /\ (req.op = "create" /\ res.status = 201)
        => LET task == tasks[nextTaskId - 1] IN
           /\ task.status = IF req.body.status = Undefined THEN "todo" ELSE req.body.status
           /\ task.priority = IF req.body.priority = Undefined THEN "medium"
                              ELSE req.body.priority
           /\ task.createdBy = req.header.token.id
           /\ res.data = <<task>>

C20_Witness ==
    /\ req.op = "create" /\ res.status = 201
    /\ req.body.status = Undefined /\ req.body.priority = Undefined
    /\ req.body.createdBy = 1 /\ req.header.token.id = 2
    /\ \E k \in DOMAIN tasks : tasks[k].status = "done" /\ tasks[k].priority = "high"

\* the routes behind the guard, and the header the guard lets through
GuardedOps == {"create", "list", "get", "update", "delete", "profile"}
ValidBearer(header, t) ==
    /\ header.scheme = "Bearer"
    /\ header.token.kind = "access" /\ t < header.token.exp
    /\ header.token.id \in DOMAIN users

\* C21: a request to a task route or to the profile route whose
\* Authorization header is not 'Bearer' followed by a validly signed,
\* unexpired access token of an existing user is answered 401 and changes no
\* task and no user.
C21_GuardRejects ==
    [][(now' = now /\ req'.op \in GuardedOps /\ ~ValidBearer(req'.header, now))
        => res'.status = 401 /\ tasks' = tasks /\ users' = users]_vars

C21_Witness ==
    /\ req.op = "profile" /\ res.status = 401
    /\ req.header.scheme = "Basic"
    /\ Verify(req.header.token, "access", now) = "ok"

\* C22: the guard answers an expired access token with 401 'Token expired'
\* and a malformed or wrongly signed token with 401 'Invalid token', never
\* one for the other.
C22_ExpiredIsNotInvalid ==
    [][(now' = now /\ req'.op \in GuardedOps /\ req'.header.scheme = "Bearer")
        => /\ (req'.header.token.kind = "access" /\ now >= req'.header.token.exp)
                => res' = TaskResponse(401,
                       "Token expired. Please refresh your token or login again.", <<>>)
           /\ req'.header.token.kind # "access"
                => res' = TaskResponse(401, "Invalid token. Please login again.", <<>>)]_vars

C22_Witness ==
    /\ req.op = "update" /\ req.header.scheme = "Bearer"
    /\ req.header.token.kind = "access" /\ now >= req.header.token.exp
    /\ res.message = "Token expired. Please refresh your token or login again."

\* C23: a refresh token sent as the bearer token is answered 401 by the
\* guard, and an access token sent in the refresh cookie is answered 401 by
\* refresh.
C23_TokensNotInterchangeable ==
    /\ (req.op = "profile" /\ req.header.token.kind = "refresh") => res.status = 401
    /\ (req.op = "refresh" /\ req.cookie.kind = "access") => res.status = 401

C23_Witness ==
    /\ req.op = "profile" /\ res.status = 401
    /\ req.header.scheme = "Bearer" /\ req.header.token.kind = "refresh"
    /\ Verify(req.header.token, "refresh", now) = "ok"
    /\ users[req.header.token.id].refreshToken = req.header.token

\* C24: the guard changes no persisted state: a guarded request leaves the
\* user records as they were, and the task records too unless the guard
\* passed it on to a handler that writes.
C24_GuardWritesNothing ==
    [][(now' = now /\ req'.op \in GuardedOps)
        => /\ users' = users
           /\ (CallerOf(req') = 0 \/ req'.op \in {"list", "get", "profile"})
                => tasks' = tasks]_vars

C24_Witness ==
    /\ req.op = "get" /\ res.status = 200
    /\ users[req.header.token.id].refreshToken # Null

\* C25: a validly signed, unexpired access token whose user record does not
\* exist is answered 401 'User not found' and the handler does not run.
C25_MissingUserRejected ==
    [][(/\ now' = now /\ req'.op \in GuardedOps
        /\ req'.header.scheme = "Bearer"
        /\ Verify(req'.header.token, "access", now) = "ok"
        /\ req'.header.token.id \notin DOMAIN users)
        => /\ res' = TaskResponse(401, "User not found. Token is invalid.", <<>>)
           /\ tasks' = tasks /\ nextTaskId' = nextTaskId]_vars

C25_Witness ==
    /\ req.op = "create" /\ req.header = Bearer(Orphan)
    /\ res = TaskResponse(401, "User not found. Token is invalid.", <<>>)
    /\ tasks # <<>>

\* C26: every stored password is one bcrypt hash of the password given at
\* registration, never the plaintext, and the body of a response of an auth
\* route carries no password, no hash and no refresh token.
C26_SecretsStayInside ==
    /\ \A u \in DOMAIN users :
        /\ Len(users[u].password.salts) = 1
        /\ users[u].password = Hash(Plain(regPassword[u]), users[u].password.salts[1])
    /\ req.op \in {"register", "login", "refresh", "logout"}
        => /\ DOMAIN res.user = {"id", "name", "email"}
           /\ res.accessToken.kind \in {"access", "null"}
           /\ \A u \in DOMAIN users : regPassword[u] \notin {res.message, res.user.name,
                                                            res.user.email}
    /\ req.op = "profile"
        => \A k \in 1..Len(res.data) : DOMAIN res.data[k] = {"id", "name", "email"}

C26_Witness ==
    /\ req.op = "login" /\ res.status = 200
    /\ req.email = "JO@x.io" /\ res.user.email = "jo@x.io"
    /\ Len(users) = 2

\* C27: a register with a field missing, a name shorter than 2 characters,
\* an email that does not match the pattern or a password shorter than 6
\* characters is answered 400, creates no user and sets no cookie.
C27_RegisterInvalidIs400 ==
    [][(/\ now' = now /\ req'.op = "register"
        /\ \/ Len(req'.name) < 2
           \/ req'.email = "" \/ ~MatchesEmailPattern(LowerCase(req'.email))
           \/ Len(req'.password) < 6)
        => res'.status = 400 /\ users' = users /\ res'.cookie = "none"]_vars

\* the tasks that were created and are no longer stored
Deleted == (1..(nextTaskId - 1)) \ DOMAIN tasks

\* C28: a successful delete removes the task for good: it is never stored
\* again, no later list returns it and every later get, update or delete
\* of it is answered 404.
C28_DeleteIsPermanent ==
    [][/\ (now' = now /\ req'.op = "delete" /\ res'.status = 200)
            => req'.id.n \in DOMAIN tasks /\ req'.id.n \notin DOMAIN tasks'
       /\ \A k \in Deleted : k \notin DOMAIN tasks'
       /\ (/\ now' = now /\ CallerOf(req') # 0
           /\ req'.op \in {"get", "update", "delete"}
           /\ req'.id.hex /\ req'.id.n \in Deleted)
            => res' = TaskResponse(404, "Task not found", <<>>)
       /\ (now' = now /\ req'.op = "list")
            => \A k \in 1..Len(res'.data) : res'.data[k].createdAt \notin Deleted]_vars

C28_Witness ==
    /\ req.op = "delete" /\ res.status = 404
    /\ req.id.hex /\ req.id.n \in Deleted
    /\ protect(users, now, req.header).user # 0
    /\ tasks # <<>>

\* C29: a list returns the stored tasks of the caller, all of them and no
\* other, newest first, with count the number of tasks returned.
C29_ListExact ==
    (req.op = "list" /\ res.status = 200)
        => LET own == {k \in DOMAIN tasks : tasks[k].createdBy = req.header.token.id} IN
           /\ {res.data[i] : i \in 1..Len(res.data)} = {tasks[k] : k \in own}
           /\ Len(res.data) = Cardinality(own)
           /\ \A i, j \in 1..Len(res.data) :
                i < j => res.data[i].createdAt > res.data[j].createdAt
           /\ res.count = Len(res.data)

C29_Witness ==
    /\ req.op = "list" /\ res.status = 200
    /\ Len(res.data) = 2

\* C30: every request is answered exactly once, and every response that
\* reports a failure carries the envelope { success: false, message }.
C30_OneEnvelopeResponse ==
    \A i \in DOMAIN inflight :
        /\ inflight[i].sent <= 1
        /\ inflight[i].pc = "done"
            => /\ inflight[i].sent = 1
               /\ inflight[i].status >= 400 => inflight[i].envelope

\* C31: a register, login or refresh that succeeds puts in the response
\* cookie the very token it stores on the user's record, so a refresh with
\* the cookie is accepted next.
C31_CookieIsStoredToken ==
    [][(/\ now' = now
        /\ req'.op \in {"register", "login", "refresh"}
        /\ res'.status \in {200, 201})
        => /\ res'.cookie = "set"
           /\ res'.refreshToken.id \in DOMAIN users'
           /\ users'[res'.refreshToken.id].refreshToken = res'.refreshToken
           /\ refresh(users', now', res'.refreshToken).res.status = 200]_vars

C31_Witness ==
    /\ req.op = "refresh" /\ res.status = 200
    /\ res.refreshToken # req.cookie
    /\ users[res.refreshToken.id].refreshToken = res.refreshToken
    /\ Len(users) = 2

\* C32: a login or a refresh that is rejected changes no user record: every
\* stored refresh token stays as it was.
C32_RejectedAuthWritesNothing ==
    [][(now' = now /\ req'.op \in {"login", "refresh"} /\ res'.status # 200)
        => users' = users]_vars

C32_Witness ==
    /\ req.op = "refresh" /\ res = Fail(401, "Invalid refresh token")
    /\ req.cookie.id \in DOMAIN users
    /\ users[req.cookie.id].refreshToken \notin {Null, req.cookie}

\* C33: the refresh token stored on a user's record is null or a token
\* signed with the refresh secret whose payload names that user, and a
\* refresh that succeeds rotates the token of the user its cookie names.
C33_StoredTokenIsOwn ==
    /\ \A u \in DOMAIN users :
        \/ users[u].refreshToken = Null
        \/ /\ users[u].refreshToken.kind = "refresh"
           /\ users[u].refreshToken.id = u
    /\ (req.op = "refresh" /\ res.status = 200)
        => /\ req.cookie.kind = "refresh"
           /\ res.refreshToken.id = req.cookie.id
           /\ res.accessToken.id = req.cookie.id

C33_Witness ==
    /\ Len(users) = 2
    /\ users[1].refreshToken = Null
    /\ users[2].refreshToken.kind = "refresh" /\ users[2].refreshToken.iat > 0
    /\ req.op = "refresh" /\ res.status = 401 /\ req.cookie.id = 1
    /\ Verify(req.cookie, "refresh", now) = "ok"

\* C34: a guarded request that the guard lets through acts as the user
\* whose id is the payload of the presented access token: the profile
\* returned is that user's.
C34_IdentityIsTokenPayload ==
    (req.op = "profile" /\ res.status = 200)
        => /\ req.header.token.kind = "access"
           /\ req.header.token.id \in DOMAIN users
           /\ res.data = <<userJson(users[req.header.token.id], req.header.token.id)>>

C34_Witness ==
    /\ req.op = "profile" /\ res.status = 200
    /\ req.header.token.id = 2
    /\ users[1].refreshToken # Null
    /\ users[2].refreshToken.iat = now /\ now > 0

\* C35: a logout whose cookie is a validly signed refresh token of user U,
\* the current one or an older one, is answered 200 and clears U's stored
\* token, so that no refresh token issued to U is accepted by refresh
\* afterwards.
C35_LogoutByOldToken ==
    [][(/\ now' = now /\ req'.op = "logout"
        /\ Verify(req'.cookie, "refresh", now) = "ok"
        /\ req'.cookie.id \in DOMAIN users)
        => /\ res'.status = 200
           /\ users'[req'.cookie.id].refreshToken = Null
           /\ \A i \in issued :
                i[1] = req'.cookie.id
                    => refresh(users', now', RefreshTokenOf(i)).res.status = 401]_vars

C35_Witness ==
    /\ req.op = "logout" /\ res.status = 200
    /\ req.cookie.kind = "refresh" /\ req.cookie.iat < now
    /\ <<req.cookie.id, now>> \in issued
    /\ users[req.cookie.id].refreshToken = Null
    /\ loggedOut[req.cookie.id]

\* C36: an access token issued to user U is accepted by the guard until it
\* expires, whatever logouts and rotations have happened since.
C36_AccessTokenOutlivesLogout ==
    /\ \A i \in issued :
        now < i[2] + AccessExpire
            => protect(users, now, Bearer(generateAccessToken(i[1], i[2]))).user = i[1]
    /\ (/\ req.op = "profile"
        /\ req.header \in {Bearer(generateAccessToken(i[1], i[2])) : i \in issued}
        /\ now < req.header.token.exp)
        => res.status = 200

C36_Witness ==
    /\ req.op = "profile" /\ res.status = 200
    /\ loggedOut[req.header.token.id]
    /\ users[req.header.token.id].refreshToken = Null

\* C37: register is all-or-nothing: a register request that is answered
\* with a status other than 201 has created no user record, also when the
\* save of the refresh token fails after the insert.
C37_RegisterAllOrNothing ==
    \A i \in DOMAIN inflight :
        (inflight[i].pc = "done" /\ inflight[i].status # 201)
            => /\ inflight[i].id = 0
               /\ \A u \in DOMAIN users :
                    users[u].email = LowerCase(inflight[i].body.email)
                        => \E j \in DOMAIN inflight : j # i /\ inflight[j].id = u

\* C38: when an update and a delete of one task interleave, the task is
\* absent once the delete has been answered 200: an update whose save
\* comes after the delete stores nothing and is not answered 200.
C38_UpdateAfterDelete ==
    [][/\ \A i \in DOMAIN inflight' :
            (inflight'[i].op = "delete" /\ inflight'[i].pc = "done"
                /\ inflight'[i].status = 200)
                => RaceId.n \notin DOMAIN tasks'
       /\ \A i \in DOMAIN inflight :
            (/\ inflight[i].pc = "save" /\ inflight'[i].pc = "done"
             /\ RaceId.n \notin DOMAIN tasks)
                => inflight'[i].status # 200 /\ tasks' = tasks]_vars

C38_Witness ==
    \E i, j \in DOMAIN inflight :
        /\ inflight[i].op = "update" /\ inflight[i].pc = "done"
        /\ inflight[i].status = 500 /\ validateTask(inflight[i].doc)
        /\ inflight[i].paths # {}
        /\ inflight[j].op = "delete" /\ inflight[j].pc = "done" /\ inflight[j].status = 200
        /\ RaceId.n \notin DOMAIN tasks

\* the request whose save the step executes, and a login among the others
Saving(i) ==
    /\ inflight[i].pc \in {"save", "saveLogin"}
    /\ inflight'[i].pc = "done" /\ inflight'[i].status = 200
IsLogin(j) == inflight[j].email # ""
IsRefresh(j) == inflight[j].pc # "idle" /\ inflight[j].email = ""

\* C39: when a login and a refresh of one user interleave, each save leaves
\* on the record the token of the request that saved, so that the record
\* ends with the token of the last save; that token is in the cookie of
\* the response and names the user of the record.
C39_LastSaveWins ==
    [][\A i, j \in DOMAIN inflight :
        (/\ Saving(i) /\ i # j
         /\ (IsLogin(i) /\ IsRefresh(j)) \/ (IsRefresh(i) /\ IsLogin(j)))
            => LET token == inflight[i].minted IN
               /\ users'[token.id].refreshToken = token
               /\ res'.cookie = "set" /\ res'.refreshToken = token
               /\ token.kind = "refresh"]_vars

====
